---- MODULE Spec2Model ----
(***************************************************************************)
(* StsFetcherImpl (source/extensions/filters/http/aws_lambda/              *)
(* sts_fetcher.cc): the asynchronous STS credential fetcher.               *)
(*                                                                         *)
(* The object's fields are the record `this`.  The fetcher runs on one     *)
(* dispatcher thread, so each method is one atomic step up to the point    *)
(* where it hands control to the caller's callback object; what follows    *)
(* the callback (the trailing reset()) is the step CallbackReturn, the     *)
(* only way out of a callback frame.  While a callback frame is on         *)
(* `stack` the caller's code is running and may call cancel() (and, in     *)
(* SpecMisuse, fetch()) re-entrantly.                                      *)
(*                                                                         *)
(* Pointers are fetch numbers (callbacks_, uri_: the objects passed to     *)
(* that fetch) or request numbers (request_), 0 is nullptr.                *)
(*                                                                         *)
(* The transport (Http::AsyncClient) is the environment: a request is      *)
(* pending after send(), and gets one completion, delivered from the       *)
(* dispatcher (never from inside a fetcher method), unless it is           *)
(* cancelled first.                                                        *)
(*                                                                         *)
(* Spec:       the caller keeps fetch's precondition (fetch is called from *)
(*             outside the callbacks, with callbacks_ == nullptr), calls   *)
(*             cancel() anywhere, also from inside a callback, and         *)
(*             destroys the fetcher from outside its callbacks.            *)
(* SpecMisuse: the caller may also call fetch while one is in progress or  *)
(*             from inside a callback.                                     *)
(* SpecStale:  the transport may also deliver a completion for a request   *)
(*             after its cancel.                                           *)
(***************************************************************************)
EXTENDS Integers, Sequences, FiniteSets, TLC

VARIABLES
    build,      \* "debug" (ASSERT compiled in) or "release" (compiled out); "any" until
                \* an ASSERT fails, the one place where the two builds differ
    alive,      \* the StsFetcherImpl object has not been destroyed
    halted,     \* "run", "assert" (ASSERT aborted), "ub" (crash on undefined behaviour)
    this,       \* complete_, callbacks_, uri_, request_
    reqs,       \* the transport's requests, by handle; a pending one holds its message
    fetches,    \* what the caller saw of each fetch() call
    stack,      \* the caller callbacks being executed, innermost last
    lastOp,     \* the last fetcher method entered and the fields it found
    ub          \* a null or dangling pointer has been dereferenced

vars == <<build, alive, halted, this, reqs, fetches, stack, lastOp, ub>>

-----------------------------------------------------------------------------
(* Bounds *)

MaxFetches == 3
MaxBodyLen == 2
MaxLate == 1

(* Program constants *)

HttpCodeOK == 200
BandLow == 400
BandHigh == 403
npos == 0

Alphabet == {"E", "T"}
ExpiredTokenError == <<"E", "T">>

Bodies == UNION {[1..n -> Alphabet] : n \in 0..MaxBodyLen}
StatusCodes == {HttpCodeOK, 204, BandLow - 1, BandLow, BandHigh, BandHigh + 1, 500}
FailureReasons == {"Reset", "ExceedResponseBufferLimit"}
WebTokens == {"", "tok"}

-----------------------------------------------------------------------------
(* Pure parts *)

\* absl::string_view::find: the first position of needle in body (1-based), or npos.
RECURSIVE FindFrom(_, _, _)
FindFrom(body, needle, i) ==
    IF i + Len(needle) - 1 > Len(body) THEN npos
    ELSE IF SubSeq(body, i, i + Len(needle) - 1) = needle THEN i
    ELSE FindFrom(body, needle, i + 1)

find(body, needle) == FindFrom(body, needle, 1)

\* onSuccess with the band test widened to every 4xx.
OnSuccessOutcomeAny4xx(status_code, body) ==
    IF status_code = HttpCodeOK
    THEN IF Len(body) > 0 THEN "Success" ELSE "Network"
    ELSE IF (status_code >= BandLow) /\ (status_code < 500) /\ (Len(body) > 0)
         THEN IF find(body, ExpiredTokenError) # npos THEN "ExpiredToken" ELSE "Network"
         ELSE "Network"

\* onSuccess without the empty-body test on an OK response.
OnSuccessOutcomeNoEmptyTest(status_code, body) ==
    IF status_code = HttpCodeOK
    THEN "Success"
    ELSE IF (status_code >= BandLow) /\ (status_code <= BandHigh) /\ (Len(body) > 0)
         THEN IF find(body, ExpiredTokenError) # npos THEN "ExpiredToken" ELSE "Network"
         ELSE "Network"

\* Which caller callback onSuccess invokes: "Success" is callbacks_->onSuccess(body),
\* the others are callbacks_->onFailure(CredentialsFailureStatus::<that>).
OnSuccessOutcome(status_code, body) ==
    IF status_code = HttpCodeOK
    THEN IF Len(body) > 0 THEN "Success" ELSE "Network"
    ELSE IF (status_code >= BandLow) /\ (status_code <= BandHigh) /\ (Len(body) > 0)
         THEN IF find(body, ExpiredTokenError) # npos THEN "ExpiredToken" ELSE "Network"
         ELSE "Network"

\* Http::Utility::prepareHeaders(uri), then POST and the form content type.
PrepareMessage ==
    [method |-> "POST", contentType |-> "application/x-www-form-urlencoded",
     headers |-> {":path", "host", ":method", "content-type"},
     body |-> <<>>, signer |-> <<>>]

\* fmt::format(StsFormatString, role_arn, now, web_token)
WebIdentityBody(web_token) ==
    [form |-> "AssumeRoleWithWebIdentity", role |-> "role_arn", now |-> "now",
     token |-> <<web_token>>]

\* fmt::format(StsChainedFormatString, role_arn, now)
ChainedBody ==
    [form |-> "AssumeRole", role |-> "role_arn", now |-> "now", token |-> <<>>]

\* AwsAuthenticator::sign: adds the date and authorization headers.
AwsAuthenticatorSign(headers) == headers \cup {"x-amz-date", "authorization"}

\* The chained form sent without running the authenticator.
BuildMessageUnsigned(creds, web_token) ==
    IF ~creds
    THEN [PrepareMessage EXCEPT !.body = WebIdentityBody(web_token)]
    ELSE [PrepareMessage EXCEPT !.body = ChainedBody]

\* The message fetch builds before send(): creds is `creds != nullptr`.
BuildMessage(creds, web_token) ==
    IF ~creds
    THEN [PrepareMessage EXCEPT !.body = WebIdentityBody(web_token)]
    ELSE [PrepareMessage EXCEPT
            !.body = ChainedBody,
            !.signer = <<"init", "updatePayloadHash", "sign">>,
            !.headers = AwsAuthenticatorSign(@)]

\* reset() that forgets to clear the request handle.
resetKeepsRequest(s) == [s EXCEPT !.callbacks_ = 0, !.uri_ = 0]

\* reset() that forgets to clear the callback pointer.
resetKeepsCallbacks(s) == [s EXCEPT !.request_ = 0, !.uri_ = 0]

\* reset() that forgets to clear the endpoint pointer.
resetKeepsUri(s) == [s EXCEPT !.request_ = 0, !.callbacks_ = 0]

reset(s) == [s EXCEPT !.request_ = 0, !.callbacks_ = 0, !.uri_ = 0]

\* cancel() that does not look at the completion flag.
CancelTestNoFlag(s) == s.request_ # 0

\* cancel()'s test: request_ && !complete_
CancelTest(s) == s.request_ # 0 /\ ~s.complete_

\* The fast-fail path reporting the wrong failure kind.
FastFailStatusNetwork == "Network"

\* The status fetch reports when the cluster is not configured.
FastFailStatus == "ClusterNotFound"

-----------------------------------------------------------------------------
(* State *)

NullThis == [complete_ |-> FALSE, callbacks_ |-> 0, uri_ |-> 0, request_ |-> 0]

Init ==
    /\ build = "any"
    /\ alive = TRUE
    /\ halted = "run"
    /\ this = NullThis
    /\ reqs = <<>>
    /\ fetches = <<>>
    /\ stack = <<>>
    /\ lastOp = [op |-> "create", pre |-> NullThis]
    /\ ub = FALSE

Top == stack[Len(stack)]
Pop(s) == SubSeq(s, 1, Len(s) - 1)

\* The caller's code is running: at top level or inside one of its callbacks.
CallerRuns == halted = "run" /\ alive

\* The dispatcher is running: no fetcher method or callback is on the stack.
DispatcherRuns == halted = "run" /\ stack = <<>>

NewFetch(resolved) ==
    [resolved |-> resolved, returned |-> FALSE, nSuccess |-> 0, nFailure |-> 0,
     status |-> "none", sends |-> 0]

\* callbacks_->onSuccess / onFailure on fetch f's callback object, recorded.
Invoked(fs, f, kind) ==
    [fs EXCEPT ![f] = IF kind = "Success"
                      THEN [@ EXCEPT !.nSuccess = @ + 1, !.status = kind]
                      ELSE [@ EXCEPT !.nFailure = @ + 1, !.status = kind]]

-----------------------------------------------------------------------------
(* fetch *)

\* fetch() that leaves complete_ as the previous fetch left it.
FetchEntryKeepsFlag(s, fid) == [s EXCEPT !.callbacks_ = fid, !.uri_ = fid]

\* complete_ = false; callbacks_ = callbacks; uri_ = &uri;
FetchEntry(s, fid) == [s EXCEPT !.complete_ = FALSE, !.callbacks_ = fid, !.uri_ = fid]

\* A fetch that sends the web-identity form and falls through into the chained
\* form's send as well.
SendTwice(rs, fid, creds, web_token) ==
    LET rq == [owner |-> fid, st |-> "pending", cancels |-> 0, late |-> FALSE,
               msg |-> <<[creds |-> creds, web_token |-> web_token,
                          message |-> BuildMessage(creds, web_token)]>>]
    IN  Append(Append(rs, rq), rq)

\* httpAsyncClient().send(std::move(message), *this, options): the transport's
\* requests with the new one last.
Send(rs, fid, creds, web_token) ==
    Append(rs, [owner |-> fid, st |-> "pending", cancels |-> 0, late |-> FALSE,
                msg |-> <<[creds |-> creds, web_token |-> web_token,
                           message |-> BuildMessage(creds, web_token)]>>])

\* fetch() from its first statement; the ASSERT is the caller's matter.
FetchBody(resolved, creds, web_token) ==
    LET fid == Len(fetches) + 1
        s1 == FetchEntry(this, fid)
    IN  /\ lastOp' = [op |-> "fetch", pre |-> this]
        /\ IF ~resolved
           THEN \* thread_local_cluster == nullptr
                LET s2 == [s1 EXCEPT !.complete_ = TRUE] IN
                /\ this' = s2
                /\ fetches' = Invoked(Append(fetches, NewFetch(resolved)),
                                      s2.callbacks_, FastFailStatus)
                /\ stack' = Append(stack, [site |-> "fetch", call |-> fid, req |-> 0,
                                           cb |-> s2.callbacks_,
                                           kind |-> FastFailStatus, arg |-> <<>>,
                                           status_code |-> 0, body |-> <<>>])
                /\ UNCHANGED reqs
           ELSE /\ reqs' = Send(reqs, fid, creds, web_token)
                /\ this' = [s1 EXCEPT !.request_ = Len(reqs')]
                /\ fetches' = Append(fetches,
                                     [NewFetch(resolved) EXCEPT !.returned = TRUE,
                                                                !.sends = 1])
                /\ UNCHANGED stack
        /\ UNCHANGED <<alive, halted, ub>>

\* fetch() called as its precondition asks: from the dispatcher's level, with no
\* fetch in progress (ASSERT(callbacks_ == nullptr) holds).
Fetch(resolved, creds, web_token) ==
    /\ CallerRuns /\ stack = <<>>
    /\ Len(fetches) < MaxFetches
    /\ this.callbacks_ = 0
    /\ FetchBody(resolved, creds, web_token)
    /\ UNCHANGED build

\* fetch() called against its precondition: while a fetch is in progress, or from
\* inside a caller callback.  A debug build stops at ASSERT(callbacks_ == nullptr)
\* when it fails; a release build has no ASSERT.
FetchWhileBusy(resolved, creds, web_token) ==
    /\ CallerRuns
    /\ ~(stack = <<>> /\ this.callbacks_ = 0)
    /\ Len(fetches) < MaxFetches
    /\ IF this.callbacks_ # 0
       THEN \/ /\ build \in {"any", "debug"}
               /\ build' = "debug"
               /\ halted' = "assert"
               /\ lastOp' = [op |-> "fetch", pre |-> this]
               /\ UNCHANGED <<alive, this, reqs, fetches, stack, ub>>
            \/ /\ build \in {"any", "release"}
               /\ build' = "release"
               /\ FetchBody(resolved, creds, web_token)
       ELSE /\ FetchBody(resolved, creds, web_token)
            /\ UNCHANGED build

-----------------------------------------------------------------------------
(* cancel and the destructor *)

\* cancel() that clears the fields and leaves the transport's request alone.
CancelEffectResetOnly ==
    /\ UNCHANGED reqs
    /\ this' = reset(this)

\* cancel() with reset() inside the if, so that it runs only after a transport
\* cancel.
CancelEffectResetInsideIf ==
    IF CancelTest(this)
    THEN /\ reqs' = [reqs EXCEPT ![this.request_] =
                        [@ EXCEPT !.st = IF @ = "pending" THEN "cancelled" ELSE @,
                                  !.cancels = @ + 1, !.msg = <<>>]]
         /\ this' = reset(this)
    ELSE UNCHANGED <<reqs, this>>

\* The fields and the transport after cancel().
CancelEffect ==
    /\ IF CancelTest(this)
       THEN reqs' = [reqs EXCEPT ![this.request_] =
                        [@ EXCEPT !.st = IF @ = "pending" THEN "cancelled" ELSE @,
                                  !.cancels = @ + 1, !.msg = <<>>]]
       ELSE UNCHANGED reqs
    /\ this' = reset(this)

Cancel ==
    /\ CallerRuns
    /\ lastOp' = [op |-> "cancel", pre |-> this]
    /\ CancelEffect
    /\ UNCHANGED <<build, alive, halted, fetches, stack, ub>>

\* A destructor that only clears the fields.
DestroyWithoutCancel ==
    /\ CallerRuns /\ stack = <<>>
    /\ lastOp' = [op |-> "destroy", pre |-> this]
    /\ this' = reset(this)
    /\ alive' = FALSE
    /\ UNCHANGED <<build, halted, reqs, fetches, stack, ub>>

\* ~StsFetcherImpl(), by the owner, outside the fetcher's own callbacks.
Destroy ==
    /\ CallerRuns /\ stack = <<>>
    /\ lastOp' = [op |-> "destroy", pre |-> this]
    /\ CancelEffect
    /\ alive' = FALSE
    /\ UNCHANGED <<build, halted, fetches, stack, ub>>

-----------------------------------------------------------------------------
(* The transport's completions *)

\* A dereference of callbacks_ / uri_ that is null (or of a destroyed object):
\* the build either crashes there or carries on without a call.
Undefined(s) ==
    /\ ub' = TRUE
    /\ \/ halted' = "ub" /\ this' = s
       \/ halted' = halted /\ this' = reset(s)
    /\ UNCHANGED <<fetches, stack>>

\* onSuccess(request, response), up to the caller's callback; r is the request
\* the transport names, which the method does not look at.  The response is any
\* status and body; it decides nothing when callbacks_ is null.
OnSuccessBody(r) ==
    LET s1 == [this EXCEPT !.complete_ = TRUE]
    IN  /\ lastOp' = [op |-> "onSuccess", pre |-> this]
        /\ IF s1.callbacks_ = 0 \/ ~alive
           THEN Undefined(s1)
           ELSE \E status_code \in StatusCodes, body \in Bodies :
                LET kind == OnSuccessOutcome(status_code, body) IN
                /\ this' = s1
                /\ fetches' = Invoked(fetches, s1.callbacks_, kind)
                /\ stack' = Append(stack, [site |-> "onSuccess", call |-> 0, req |-> r,
                                           cb |-> s1.callbacks_, kind |-> kind,
                                           arg |-> IF kind = "Success" THEN body ELSE <<>>,
                                           status_code |-> status_code, body |-> body])
                /\ UNCHANGED <<halted, ub>>
        /\ UNCHANGED <<build, alive>>

\* onFailure that only logs: the flag is set and the caller is never told.
OnFailureBodySilent(r, reason) ==
    /\ lastOp' = [op |-> "onFailure", pre |-> this]
    /\ this' = reset([this EXCEPT !.complete_ = TRUE])
    /\ UNCHANGED <<build, alive, halted, fetches, stack, ub>>

\* onFailure(request, reason), up to the caller's callback.
OnFailureBody(r, reason) ==
    LET s1 == [this EXCEPT !.complete_ = TRUE] IN
    /\ lastOp' = [op |-> "onFailure", pre |-> this]
    /\ IF this.uri_ = 0 \/ s1.callbacks_ = 0 \/ ~alive
       THEN Undefined(s1)
       ELSE /\ this' = s1
            /\ fetches' = Invoked(fetches, s1.callbacks_, "Network")
            /\ stack' = Append(stack, [site |-> "onFailure", call |-> 0, req |-> r,
                                       cb |-> s1.callbacks_, kind |-> "Network",
                                       arg |-> <<>>, status_code |-> 0, body |-> <<>>])
            /\ UNCHANGED <<halted, ub>>
    /\ UNCHANGED <<build, alive>>

OnSuccess(r) ==
    /\ DispatcherRuns
    /\ reqs[r].st = "pending"
    /\ reqs' = [reqs EXCEPT ![r].st = "done", ![r].msg = <<>>]
    /\ OnSuccessBody(r)

OnFailure(r, reason) ==
    /\ DispatcherRuns
    /\ reqs[r].st = "pending"
    /\ reqs' = [reqs EXCEPT ![r].st = "done", ![r].msg = <<>>]
    /\ OnFailureBody(r, reason)

\* The completions delivered after a cancel so far.
Late == {r \in DOMAIN reqs : reqs[r].late}

\* A completion the transport had queued before cancel() and delivers after it.
LateOnSuccess(r) ==
    /\ DispatcherRuns
    /\ Cardinality(Late) < MaxLate
    /\ reqs[r].st = "cancelled" /\ ~reqs[r].late
    /\ reqs' = [reqs EXCEPT ![r].late = TRUE]
    /\ OnSuccessBody(r)

LateOnFailure(r, reason) ==
    /\ DispatcherRuns
    /\ Cardinality(Late) < MaxLate
    /\ reqs[r].st = "cancelled" /\ ~reqs[r].late
    /\ reqs' = [reqs EXCEPT ![r].late = TRUE]
    /\ OnFailureBody(r, reason)

\* A return from the caller's callback with the trailing reset() missing.
CallbackReturnNoReset ==
    /\ halted = "run"
    /\ stack # <<>>
    /\ stack' = Pop(stack)
    /\ fetches' = IF Top.site = "fetch"
                  THEN [fetches EXCEPT ![Top.call].returned = TRUE]
                  ELSE fetches
    /\ UNCHANGED <<build, alive, halted, this, reqs, lastOp, ub>>

\* The caller's callback returns into fetch / onSuccess / onFailure, which all
\* finish with reset() and return.
CallbackReturn ==
    /\ halted = "run"
    /\ stack # <<>>
    /\ this' = reset(this)
    /\ stack' = Pop(stack)
    /\ fetches' = IF Top.site = "fetch"
                  THEN [fetches EXCEPT ![Top.call].returned = TRUE]
                  ELSE fetches
    /\ UNCHANGED <<build, alive, halted, reqs, lastOp, ub>>

-----------------------------------------------------------------------------

Next ==
    \/ \E resolved \in BOOLEAN, creds \in BOOLEAN, web_token \in WebTokens :
          Fetch(resolved, creds, web_token)
    \/ Cancel
    \/ Destroy
    \/ \E r \in DOMAIN reqs : OnSuccess(r)
    \/ \E r \in DOMAIN reqs, reason \in FailureReasons : OnFailure(r, reason)
    \/ CallbackReturn

Spec == Init /\ [][Next]_vars

\* The caller may also call fetch() against its precondition.
NextMisuse ==
    \/ Next
    \/ \E resolved \in BOOLEAN, creds \in BOOLEAN, web_token \in WebTokens :
          FetchWhileBusy(resolved, creds, web_token)

SpecMisuse == Init /\ [][NextMisuse]_vars

\* The transport may also deliver a completion for a request after its cancel.
NextStale ==
    \/ Next
    \/ \E r \in DOMAIN reqs : LateOnSuccess(r)
    \/ \E r \in DOMAIN reqs, reason \in FailureReasons : LateOnFailure(r, reason)

SpecStale == Init /\ [][NextStale]_vars

\* The transport delivers the completion of every request it holds pending.
Deliver ==
    \/ \E r \in DOMAIN reqs : OnSuccess(r)
    \/ \E r \in DOMAIN reqs, reason \in FailureReasons : OnFailure(r, reason)

\* The transport delivers one completion for every accepted request that is
\* not cancelled first, and the caller's callbacks return.
SpecLive == Spec /\ WF_vars(Deliver) /\ WF_vars(CallbackReturn)

-----------------------------------------------------------------------------
(* What the claims speak of *)

Fetches == DOMAIN fetches
Requests == DOMAIN reqs

\* The caller-callback invocations fetch f has received.
Calls(f) == fetches[f].nSuccess + fetches[f].nFailure

\* The transport requests fetch f submitted.
ReqOf(f) == {r \in Requests : reqs[r].owner = f}

\* Fetch f's request was cancelled at the transport (by cancel() or the destructor).
Cancelled(f) == \E r \in ReqOf(f) : reqs[r].st = "cancelled"

\* Fetch f is over: fetch() has returned, the transport holds nothing pending for
\* it, and its callback is not running.
Over(f) ==
    /\ fetches[f].returned
    /\ \A r \in ReqOf(f) : reqs[r].st # "pending"
    /\ \A i \in DOMAIN stack : stack[i].cb # f

\* The fetcher holds no in-flight state.
Cleared == this.request_ = 0 /\ this.callbacks_ = 0 /\ this.uri_ = 0

-----------------------------------------------------------------------------
(* C1 *)

\* C1 as stated: every fetch gets exactly one caller-callback invocation in
\* total, whatever sequence of fetch, cancel, completion and destruction follows:
\* never more than one, and one once the fetch is over.
C1_ExactlyOnceAlways ==
    \A f \in Fetches : Calls(f) <= 1 /\ (Over(f) => Calls(f) = 1)

\* C1, amended: every fetch made as its precondition asks gets at most one
\* caller-callback invocation in total (onSuccess or onFailure, never both); once
\* it is over it has had exactly one, unless its request was cancelled (by
\* cancel() or by the destructor) before completion, and then it has had none.
C1_ExactlyOnceUnlessCancelled ==
    \A f \in Fetches :
        /\ Calls(f) <= 1
        /\ Over(f) => (Calls(f) = 1 <=> ~Cancelled(f))

C1_Witness ==
    \E f, g \in Fetches :
        /\ Over(f) /\ Calls(f) = 1 /\ fetches[f].resolved
        /\ Over(g) /\ Calls(g) = 0 /\ Cancelled(g)

-----------------------------------------------------------------------------
(* C2 *)

\* C2 as stated: no caller callback is invoked before the fetch call has
\* returned, for any fetch, the unresolvable-cluster one included.
C2_NoCallbackBeforeReturn ==
    \A f \in Fetches : ~fetches[f].returned => Calls(f) = 0

\* C2, amended: a caller callback invoked before fetch has returned is the one
\* onFailure(ClusterNotFound) of a fetch whose cluster is not configured; a fetch
\* that submits a request gets no callback before it returns.
C2_OnlyFastFailBeforeReturn ==
    \A f \in Fetches :
        (~fetches[f].returned /\ Calls(f) > 0) =>
            /\ ~fetches[f].resolved
            /\ fetches[f].nFailure = 1 /\ fetches[f].nSuccess = 0
            /\ fetches[f].status = "ClusterNotFound"
            /\ fetches[f].sends = 0 /\ ReqOf(f) = {}

C2_Witness ==
    \E f, g \in Fetches :
        /\ fetches[f].resolved /\ fetches[f].returned /\ Calls(f) = 1
        /\ ~fetches[g].resolved /\ ~fetches[g].returned /\ Calls(g) = 1

-----------------------------------------------------------------------------
(* C3 *)

\* C3: a fetch called while a request is in flight (submitted, neither completed
\* nor cancelled) is rejected: it sends nothing, the in-flight request's handle
\* and callback stay as they were, and the transport never holds two pending
\* requests of one fetcher.
C3_OverlappingFetchRejected ==
    /\ (lastOp.op = "fetch" /\ lastOp.pre.request_ # 0 /\ ~lastOp.pre.complete_) =>
          /\ this.request_ = lastOp.pre.request_
          /\ this.callbacks_ = lastOp.pre.callbacks_
    /\ Cardinality({r \in Requests : reqs[r].st = "pending"}) <= 1

-----------------------------------------------------------------------------
(* C4 *)

-----------------------------------------------------------------------------
(* C5 *)

\* C5: a fetch whose cluster cannot be resolved gets exactly one onFailure, with
\* ClusterNotFound, and no onSuccess; it makes no transport send; and once it has
\* returned, request_, callbacks_ and uri_ are all cleared.
C5_FastFail ==
    \A f \in Fetches :
        ~fetches[f].resolved =>
            /\ fetches[f].nFailure = 1 /\ fetches[f].nSuccess = 0
            /\ fetches[f].status = "ClusterNotFound"
            /\ fetches[f].sends = 0 /\ ReqOf(f) = {}
            /\ (fetches[f].returned /\ f = Len(fetches)) => Cleared

C5_Witness ==
    \E f \in Fetches :
        ~fetches[f].resolved /\ fetches[f].returned /\ f = Len(fetches) /\ f > 1

-----------------------------------------------------------------------------
(* C6 *)

\* C6: cancel() with no active request (none submitted, or the completion flag
\* set) calls no transport cancel and no caller callback, and with the fetcher
\* idle it leaves the fields as they are; and no request handle ever receives
\* more than one cancel call.
C6_CancelIdempotent ==
    /\ [](\A r \in Requests : reqs[r].cancels <= 1)
    /\ [][(Cancel /\ (this.request_ = 0 \/ this.complete_)) =>
            /\ reqs' = reqs /\ fetches' = fetches /\ stack' = stack
            /\ Cleared => this' = this]_vars

C6_Witness ==
    /\ lastOp.op = "cancel"
    /\ lastOp.pre.request_ = 0 /\ lastOp.pre.callbacks_ = 0
    /\ \E r \in Requests : reqs[r].st = "cancelled" /\ reqs[r].cancels = 1
    /\ \E r \in Requests : reqs[r].st = "done"

-----------------------------------------------------------------------------
(* C7 *)

\* C7: the destructor, with a request in flight and not completed, calls cancel
\* on that request's handle (once), and otherwise calls no transport cancel; it
\* invokes no caller callback, and after it none can follow: no callback is
\* running and the transport holds no pending request of the fetcher.
C7_DestructorCancels ==
    /\ [][Destroy =>
            IF this.request_ # 0 /\ ~this.complete_
            THEN /\ reqs'[this.request_].st = "cancelled"
                 /\ reqs'[this.request_].cancels = reqs[this.request_].cancels + 1
                 /\ \A r \in Requests \ {this.request_} : reqs'[r] = reqs[r]
            ELSE reqs' = reqs]_vars
    /\ [][~alive' => (fetches' = fetches /\ stack' = stack)]_vars
    /\ [](~alive => (stack = <<>> /\ \A r \in Requests : reqs[r].st # "pending"))

C7_Witness ==
    /\ ~alive
    /\ lastOp.op = "destroy" /\ lastOp.pre.request_ # 0
    /\ reqs[lastOp.pre.request_].st = "cancelled"
    /\ \E r \in Requests : reqs[r].st = "done" /\ reqs[r].cancels = 0

-----------------------------------------------------------------------------
(* C8 *)

\* The caller callbacks that onSuccess is executing.
SuccessFrames == {i \in DOMAIN stack : stack[i].site = "onSuccess"}

\* C8 as stated: for every status in the success range (2xx) a non-empty body
\* goes to onSuccess unmodified and an empty body gives onFailure(Network).
C8_SuccessRangePassesBody ==
    \A i \in SuccessFrames :
        (stack[i].status_code >= 200 /\ stack[i].status_code <= 299) =>
            IF stack[i].body # <<>>
            THEN stack[i].kind = "Success" /\ stack[i].arg = stack[i].body
            ELSE stack[i].kind = "Network"

\* C8, amended: for status 200 (OK) exactly, a non-empty body goes to onSuccess
\* unmodified and an empty body gives onFailure(Network); every other 2xx status
\* gives onFailure(Network) whatever the body.  No 2xx response yields
\* ExpiredToken or ClusterNotFound, and onSuccess is invoked for status 200 only.
C8_OkPassesBody ==
    \A i \in SuccessFrames :
        /\ stack[i].status_code = 200 =>
              IF stack[i].body # <<>>
              THEN /\ stack[i].kind = "Success" /\ stack[i].arg = stack[i].body
                   /\ fetches[stack[i].cb].nSuccess = 1 /\ fetches[stack[i].cb].nFailure = 0
              ELSE /\ stack[i].kind = "Network"
                   /\ fetches[stack[i].cb].nSuccess = 0 /\ fetches[stack[i].cb].nFailure = 1
        /\ (stack[i].status_code > 200 /\ stack[i].status_code <= 299) =>
              stack[i].kind = "Network"
        /\ stack[i].kind = "Success" => stack[i].status_code = 200

C8_Witness ==
    \E i \in SuccessFrames :
        /\ stack[i].status_code = 200 /\ Len(stack[i].body) = MaxBodyLen
        /\ stack[i].kind = "Success"
        /\ \E f \in Fetches : fetches[f].status = "Network" /\ fetches[f].resolved

-----------------------------------------------------------------------------
(* C9 *)

\* The body holds the expiry marker somewhere.
HasMarker(body) ==
    \E i \in 1..Len(body) :
        /\ i + Len(ExpiredTokenError) - 1 <= Len(body)
        /\ \A k \in 1..Len(ExpiredTokenError) : body[i + k - 1] = ExpiredTokenError[k]

\* C9: on a completion with a status other than OK the caller gets
\* onFailure(ExpiredToken) exactly when the status is in 400..403 and the body is
\* non-empty and holds the expiry marker, and onFailure(Network) otherwise.
C9_ExpiredTokenBand ==
    \A i \in SuccessFrames :
        stack[i].status_code # 200 =>
            /\ stack[i].kind \in {"ExpiredToken", "Network"}
            /\ stack[i].kind = "ExpiredToken" <=>
                  /\ stack[i].status_code >= 400 /\ stack[i].status_code <= 403
                  /\ stack[i].body # <<>>
                  /\ HasMarker(stack[i].body)
            /\ fetches[stack[i].cb].status = stack[i].kind
            /\ fetches[stack[i].cb].nFailure = 1 /\ fetches[stack[i].cb].nSuccess = 0

C9_Witness ==
    /\ \E i \in SuccessFrames :
          stack[i].status_code = 403 /\ stack[i].kind = "ExpiredToken"
    /\ \E f \in Fetches : fetches[f].status = "Network" /\ fetches[f].resolved

-----------------------------------------------------------------------------
(* C10 *)

\* C10: without credentials the web-identity body (role, timestamp, web token) is
\* sent, the signer is not run and there is no authorization header; with
\* credentials the chained body (role, timestamp, no token) is sent after the
\* signer's init, updatePayloadHash and sign, with an authorization header.
\* Either way the request is a POST with the form content type, and a fetch that
\* submits makes exactly one send.
C10_RequestForm ==
    /\ \A r \in Requests : \A k \in DOMAIN reqs[r].msg :
          LET sent == reqs[r].msg[k]
              m == sent.message IN
          /\ m.method = "POST"
          /\ m.contentType = "application/x-www-form-urlencoded"
          /\ "content-type" \in m.headers
          /\ m.body.role = "role_arn" /\ m.body.now = "now"
          /\ IF ~sent.creds
             THEN /\ m.body.form = "AssumeRoleWithWebIdentity"
                  /\ m.body.token = <<sent.web_token>>
                  /\ m.signer = <<>>
                  /\ "authorization" \notin m.headers
             ELSE /\ m.body.form = "AssumeRole"
                  /\ m.body.token = <<>>
                  /\ m.signer = <<"init", "updatePayloadHash", "sign">>
                  /\ "authorization" \in m.headers
    /\ \A f \in Fetches :
          Cardinality(ReqOf(f)) = (IF fetches[f].resolved THEN 1 ELSE 0)

C10_Witness ==
    /\ \E r \in Requests :
          /\ reqs[r].st = "pending" /\ Len(reqs[r].msg) = 1
          /\ reqs[r].msg[1].creds /\ reqs[r].msg[1].web_token = "tok"
    /\ \E f \in Fetches : fetches[f].resolved /\ Over(f)

-----------------------------------------------------------------------------
(* C11 *)

\* C11: every fetch has at most one transport request, and the transport gets a
\* new request only in a step that is a fetch call, which adds exactly one
\* request, owned by that fetch: no completion, cancel, destruction or callback
\* return sends anything.
C11_SendOncePerFetch ==
    /\ [](\A f \in Fetches : Cardinality(ReqOf(f)) <= 1)
    /\ [][Len(reqs') # Len(reqs) =>
            /\ Len(fetches') = Len(fetches) + 1
            /\ Len(reqs') = Len(reqs) + 1
            /\ reqs'[Len(reqs')].owner = Len(fetches')
            /\ fetches'[Len(fetches')].resolved]_vars

C11_Witness ==
    /\ \E f \in Fetches :
          /\ fetches[f].resolved /\ Over(f) /\ fetches[f].status = "Network"
          /\ Cardinality(ReqOf(f)) = 1
    /\ \E g \in Fetches : Cancelled(g) /\ Cardinality(ReqOf(g)) = 1
    /\ Len(reqs) = 2 /\ stack = <<>>

-----------------------------------------------------------------------------
(* C12 *)

\* C12: under the transport's delivery of one completion for every pending
\* request, a fetch whose request is pending leads to that request cancelled, or
\* to the fetch over with exactly one caller-callback invocation and the
\* fetcher idle (handle, callback pointer and endpoint pointer cleared).
C12_AcceptedFetchCompletes ==
    \A f \in 1..MaxFetches :
        (f \in Fetches /\ \E r \in ReqOf(f) : reqs[r].st = "pending")
            ~> (f \in Fetches /\ (Cancelled(f) \/ (Over(f) /\ Calls(f) = 1 /\ Cleared)))

C12_Witness ==
    /\ stack = <<>> /\ Cleared /\ alive
    /\ lastOp.op = "onSuccess"
    /\ \E f \in Fetches :
          fetches[f].resolved /\ ~Cancelled(f) /\ Over(f) /\ Calls(f) = 1

-----------------------------------------------------------------------------
(* C13 *)

\* C13: while a caller callback is executing the completion flag is set, on the
\* onSuccess, onFailure and ClusterNotFound paths alike; and the transport's
\* cancel is never invoked on a request whose completion was delivered.
C13_NoCancelAfterCompletion ==
    /\ stack # <<>> => this.complete_
    /\ \A r \in Requests : reqs[r].st = "done" => reqs[r].cancels = 0

\* cancel() called from inside the completion callback of a delivered request.
C13_Witness ==
    /\ stack # <<>> /\ Top.site \in {"onSuccess", "onFailure"}
    /\ lastOp.op = "cancel"
    /\ lastOp.pre.request_ = Top.req /\ lastOp.pre.complete_
    /\ reqs[Top.req].st = "done" /\ reqs[Top.req].cancels = 0
    /\ Cleared

-----------------------------------------------------------------------------
(* C14 *)

\* C14: a cancel() (the destructor's included) made while a request is held and
\* the completion flag is false calls the transport's cancel on that handle
\* exactly once and on no other; any other cancel() calls no transport cancel;
\* every cancel() leaves the handle, the callback pointer and the endpoint
\* pointer cleared, and invokes no caller callback.
C14_CancelEffect ==
    [][(Cancel \/ Destroy) =>
          /\ IF this.request_ # 0 /\ ~this.complete_
             THEN /\ reqs'[this.request_].cancels = reqs[this.request_].cancels + 1
                  /\ reqs'[this.request_].st = "cancelled"
                  /\ \A r \in Requests \ {this.request_} : reqs'[r] = reqs[r]
             ELSE reqs' = reqs
          /\ Len(reqs') = Len(reqs)
          /\ this'.request_ = 0 /\ this'.callbacks_ = 0 /\ this'.uri_ = 0
          /\ fetches' = fetches
          /\ stack' = stack]_vars

\* cancel() has just cancelled an in-flight request, and an earlier cancel()
\* found a completed one.
C14_Witness ==
    /\ lastOp.op = "cancel"
    /\ lastOp.pre.request_ # 0 /\ ~lastOp.pre.complete_
    /\ reqs[lastOp.pre.request_].st = "cancelled"
    /\ reqs[lastOp.pre.request_].cancels = 1
    /\ Cleared
    /\ \E f \in Fetches : fetches[f].resolved /\ Over(f) /\ Calls(f) = 1

-----------------------------------------------------------------------------
(* C15 *)

\* C15: the caller callback a transport failure invokes is onFailure(Network),
\* the only invocation for that fetch; once it has returned the handle and the
\* pointers are cleared; and a fetch reported ClusterNotFound did not resolve
\* its cluster and made no send.
C15_TransportFailureIsNetwork ==
    /\ \A i \in DOMAIN stack :
          stack[i].site = "onFailure" =>
            /\ stack[i].kind = "Network"
            /\ reqs[stack[i].req].owner = stack[i].cb
            /\ fetches[stack[i].cb].status = "Network"
            /\ fetches[stack[i].cb].nFailure = 1 /\ fetches[stack[i].cb].nSuccess = 0
    /\ (lastOp.op = "onFailure" /\ stack = <<>>) =>
          /\ Cleared
          /\ fetches[lastOp.pre.callbacks_].status = "Network"
          /\ Calls(lastOp.pre.callbacks_) = 1
    /\ \A f \in Fetches :
          fetches[f].status = "ClusterNotFound" =>
              ~fetches[f].resolved /\ ReqOf(f) = {} /\ fetches[f].sends = 0

C15_Witness ==
    /\ lastOp.op = "onFailure" /\ stack = <<>> /\ Cleared
    /\ Calls(lastOp.pre.callbacks_) = 1
    /\ \E g \in Fetches : fetches[g].status = "ClusterNotFound"

-----------------------------------------------------------------------------
(* C16 *)

\* C16: once cancel() or the destructor has returned, and once a completion or
\* a fast-failed fetch has returned to the dispatcher, the handle, the callback
\* pointer and the endpoint pointer are cleared; and whenever no fetcher method
\* is on the stack a non-null handle comes with a non-null callback pointer and
\* a false completion flag.
C16_ClearedAfterTerminalPath ==
    /\ lastOp.op \in {"cancel", "destroy"} => Cleared
    /\ stack = <<>> =>
          /\ lastOp.op \in {"onSuccess", "onFailure"} => Cleared
          /\ (lastOp.op = "fetch" /\ ~fetches[Len(fetches)].resolved) => Cleared
          /\ this.request_ # 0 => (this.callbacks_ # 0 /\ ~this.complete_)

\* A fetch in flight after an earlier one ended in a callback.
C16_Witness ==
    /\ stack = <<>> /\ this.request_ # 0 /\ this.callbacks_ # 0
    /\ \E f \in Fetches : Over(f) /\ Calls(f) = 1 /\ fetches[f].resolved

-----------------------------------------------------------------------------
(* C17 *)

\* The fetcher is idle: nothing on the stack and every fetch over.
Idle == stack = <<>> /\ alive /\ halted = "run" /\ \A f \in Fetches : Over(f)

\* C17: whenever the fetcher is idle, fetch's precondition holds and a fetch
\* can be made; and a fetch, whatever came before it, leaves exactly the state
\* the first fetch of a fresh instance leaves, up to the names of the callback
\* object and the handle: flag false, pointers set and one new pending request
\* when the cluster resolves; flag true, pointers set, no handle, no send and one
\* onFailure(ClusterNotFound) in progress when it does not.
C17_Reusable ==
    /\ [](Idle => Cleared)
    /\ []((Idle /\ Len(fetches) < MaxFetches) =>
             \A resolved \in BOOLEAN : ENABLED Fetch(resolved, FALSE, "tok"))
    /\ [][Len(fetches') = Len(fetches) + 1 =>
            LET f == Len(fetches') IN
            /\ \A g \in Fetches : fetches'[g] = fetches[g]
            /\ \A r \in Requests : reqs'[r] = reqs[r]
            /\ IF fetches'[f].resolved
               THEN /\ Len(reqs') = Len(reqs) + 1
                    /\ this' = [complete_ |-> FALSE, callbacks_ |-> f, uri_ |-> f,
                                request_ |-> Len(reqs')]
                    /\ reqs'[Len(reqs')].owner = f
                    /\ reqs'[Len(reqs')].st = "pending"
                    /\ reqs'[Len(reqs')].cancels = 0
                    /\ fetches'[f].nSuccess = 0 /\ fetches'[f].nFailure = 0
                    /\ fetches'[f].returned
                    /\ stack' = stack
               ELSE /\ reqs' = reqs
                    /\ this' = [complete_ |-> TRUE, callbacks_ |-> f, uri_ |-> f,
                                request_ |-> 0]
                    /\ fetches'[f].nFailure = 1 /\ fetches'[f].nSuccess = 0
                    /\ fetches'[f].status = "ClusterNotFound"
                    /\ ~fetches'[f].returned
                    /\ Len(stack') = Len(stack) + 1
                    /\ stack'[Len(stack')].cb = f]_vars

\* A fetch in flight that was made after a completed fetch left the flag set.
C17_Witness ==
    /\ Len(fetches) >= 2 /\ stack = <<>>
    /\ lastOp.op = "fetch" /\ lastOp.pre.complete_
    /\ this.request_ = Len(reqs) /\ ~this.complete_
    /\ reqs[this.request_].st = "pending"

-----------------------------------------------------------------------------
(* C18 *)

\* C18: a completion that has returned leaves the flag set with the rest
\* cleared; a handle held outside the callbacks comes with a false flag; and a
\* cancel() (or destructor) that finds a handle whose completion was not
\* delivered has cancelled it at the transport, exactly once, however many
\* fetches completed before.
C18_FlagDoesNotLeak ==
    /\ (stack = <<>> /\ lastOp.op \in {"onSuccess", "onFailure"}) =>
          (this.complete_ /\ Cleared)
    /\ (stack = <<>> /\ this.request_ # 0) => ~this.complete_
    /\ (/\ lastOp.op \in {"cancel", "destroy"}
        /\ lastOp.pre.request_ # 0
        /\ reqs[lastOp.pre.request_].st # "done") =>
          /\ reqs[lastOp.pre.request_].st = "cancelled"
          /\ reqs[lastOp.pre.request_].cancels = 1

\* The second fetch's request cancelled after the first fetch completed.
C18_Witness ==
    /\ lastOp.op = "cancel" /\ lastOp.pre.request_ # 0
    /\ reqs[lastOp.pre.request_].st = "cancelled"
    /\ reqs[lastOp.pre.request_].cancels = 1
    /\ \E f \in Fetches :
          /\ f < reqs[lastOp.pre.request_].owner
          /\ fetches[f].resolved /\ Over(f) /\ Calls(f) = 1

-----------------------------------------------------------------------------
(* C19 *)

\* C19 as stated: while a completion callback is executing no fetch is accepted
\* (no new fetch is recorded, nothing is sent), and the reset() that follows
\* the callback never clears the handle of a request submitted during that
\* callback.
C19_ReentrantFetchNotAccepted ==
    /\ [][(stack # <<>> /\ Top.site \in {"onSuccess", "onFailure"}) =>
            (Len(fetches') = Len(fetches) /\ Len(reqs') = Len(reqs))]_vars
    /\ [][(/\ CallbackReturn
           /\ Top.site \in {"onSuccess", "onFailure"}
           /\ this.request_ # 0
           /\ reqs[this.request_].owner > Top.cb
           /\ reqs[this.request_].st = "pending") =>
            this'.request_ = this.request_]_vars

====
